---- MODULE Spec2Model ----
(***************************************************************************)
(* Model of the JPEG encoding tutorial notebook                            *)
(* (src/jpeg_encoding_tutorial.ipynb): the zig-zag access pattern          *)
(* generator, its validation loop, the run-length symbol encoder           *)
(* apply_Huffman_encoding, and the per-channel block loop with range       *)
(* modification, DCT and quantization.                                     *)
(*                                                                         *)
(* Python lists are TLA+ sequences (list index i is sequence index i+1);   *)
(* 8x8 numpy arrays are functions on Cells, indexed by <<row, col>>.       *)
(***************************************************************************)
EXTENDS Integers, Sequences, FiniteSets, TLC

VARIABLES
  pc,               \* position in the notebook / in the running function
  caller,           \* who called apply_Huffman_encoding: "cell" or "loop"
  \* ---- zig-zag generator and validation cells
  zig_zag_index,    \* list of diagonals, each a list of index pairs
  left_right,       \* direction flag of the generator
  start,            \* first index_1 of the current diagonal
  length,           \* loop variable of "for length in range(15)"
  zig_zag_flat,     \* flattened list of index pairs
  access_pattern,   \* 8x8 uint8 array written by the validation loop
  i,                \* loop variable of the validation loop
  \* ---- apply_Huffman_encoding
  B_int,            \* the quantized block handed to the encoder
  output,           \* the Python list "output"
  runlength,
  overflow_counter,
  index_pair_id,
  amplitude,
  size,
  number,
  dc_encoded,
  ac_encoded,
  \* ---- range modification and the per-channel block loop
  N_y,              \* height of the channel plane in samples
  N_x,              \* width of the channel plane in samples
  data_Y,           \* the channel plane, uint8 samples
  data_Y_int,       \* the channel plane after range modification, int8
  i_y_b,
  i_x_b,
  G,                \* frequency block of the current block (fixed point)
  Y_dc,             \* 2-D int8 array of DC values
  Y_ac,             \* list of per-block AC arrays, then the flat AC array
  \* ---- image, colour transform and chroma subsampling
  data_RGB,         \* the image: uint8 triples on Grid(N_y, N_x)
  data_YCbCr,       \* the transformed image: uint8 triples
  data_Cb,          \* subsampled chroma planes, uint8
  data_Cr,
  i_y_s,            \* loop variables i_y, i_x of the subsampling loop
  i_x_s

zzVars  == <<zig_zag_index, left_right, start, length, zig_zag_flat, access_pattern, i>>
encVars == <<B_int, output, runlength, overflow_counter, index_pair_id, amplitude, size, number>>
retVars == <<dc_encoded, ac_encoded>>
chVars  == <<N_y, N_x, data_Y, data_Y_int, i_y_b, i_x_b, G, Y_dc, Y_ac>>
imVars  == <<data_RGB, data_YCbCr, data_Cb, data_Cr, i_y_s, i_x_s>>
vars    == <<pc, caller, zzVars, encVars, retVars, chVars, imVars>>

----------------------------------------------------------------------------
(* Bounds of the model                                                     *)

\* largest number of nonzero AC coefficients in an input block
MaxCoef == 2

\* value of "size" at which the model stops following a bit-counting loop
\* that has not ended (a loop that ends never counts more than 8 bits)
MaxSize == 12

----------------------------------------------------------------------------
(* Fixed-width integers                                                    *)

\* conversion to numpy int8 (two's complement wrap)
ToInt8(x) == ((x + 128) % 256) - 128

\* a signed byte read as an unsigned byte
ToUint8(x) == x % 256

\* np.abs on an int8 scalar: the result is int8 again, so abs(-128) = -128
AbsInt8(a) == ToInt8(IF a < 0 THEN 0 - a ELSE a)

Cells == (0..7) \X (0..7)

ZeroBlock == [c \in Cells |-> 0]

\* np.empty leaves the array uninitialised: any byte pattern
Garbage == {0, 255}

----------------------------------------------------------------------------
(* Floating point, modelled in fixed point                                 *)
(*                                                                         *)
(* A float64 value is modelled by the integer nearest to value * One.      *)
(* Every floating-point multiplication rounds its result to that grid,     *)
(* ties to even, as IEEE arithmetic rounds to its own grid.  The model     *)
(* therefore resolves frequency values to about 1e-4; like the float64     *)
(* product in the source, its product alpha(0)*alpha(0) is slightly below  *)
(* 1/2.  Sums of 64 products stay below 2^31.                              *)

One == 32768

\* round(n / d) for d > 0, ties to the even integer (np.round)
RoundHalfEven(n, d) ==
  LET q == n \div d
      r == n % d
  IN  IF 2 * r > d \/ (2 * r = d /\ q % 2 = 1) THEN q + 1 ELSE q

\* fixed-point product a * b / One, rounded ties-to-even, for |b| <= One;
\* the split keeps every intermediate product below 2^31
FMul(a, b) ==
  LET hi == (a \div One) * b
      lo == (a % One) * b
      q  == hi + (lo \div One)
      r  == lo % One
  IN  IF 2 * r > One \/ (2 * r = One /\ q % 2 = 1) THEN q + 1 ELSE q

\* np.cos(n * np.pi / 16.) for n = 0..31, times One
CosTable ==
  << 32768, 32138, 30274, 27246, 23170, 18205, 12540, 6393,
     0, -6393, -12540, -18205, -23170, -27246, -30274, -32138,
     -32768, -32138, -30274, -27246, -23170, -18205, -12540, -6393,
     0, 6393, 12540, 18205, 23170, 27246, 30274, 32138 >>

\* np.cos((2. * i + 1) * k * np.pi / 16.)
Cos16(idx, k) == CosTable[(((2 * idx + 1) * k) % 32) + 1]

\* sqrt2_inv = 1.0 / np.sqrt(2)
sqrt2_inv == 23170

\* alpha_v, alpha_u: sqrt2_inv at frequency 0, else 1.0
Alpha(k) == IF k = 0 THEN sqrt2_inv ELSE One

\* variant: the factor without alpha_v and alpha_u
DCTFactorNoAlpha(i_v, i_u) == One \div 4

\* "1./4. * alpha_v * alpha_u"
DCTFactor(i_v, i_u) == FMul(FMul(One \div 4, Alpha(i_v)), Alpha(i_u))

RECURSIVE SumTo(_, _)
\* f[0] + ... + f[n]
SumTo(f, n) == IF n < 0 THEN 0 ELSE f[n] + SumTo(f, n - 1)

\* the sum over all pixels for one frequency pair: term 8 * i_y + i_x is
\* g_int[offset_y + i_y, offset_x + i_x] * cos(..i_x, i_u..) * cos(..i_y, i_v..)
DCTSum(g_int, offset_y, offset_x, i_v, i_u) ==
  SumTo([n \in 0..63 |->
           LET i_y == n \div 8
               i_x == n % 8
           IN  FMul(g_int[<<offset_y + i_y, offset_x + i_x>>] * Cos16(i_x, i_u),
                    Cos16(i_y, i_v))],
        63)

perform_DCT_on_block(g_int, offset_y, offset_x) ==
  [c \in Cells |->
     FMul(DCTSum(g_int, offset_y, offset_x, c[1], c[2]), DCTFactor(c[1], c[2]))]

Q_50Rows ==
  << << 16, 11, 10, 16,  24,  40,  51,  61 >>,
     << 12, 12, 14, 19,  26,  58,  60,  55 >>,
     << 14, 13, 16, 24,  40,  57,  69,  56 >>,
     << 14, 17, 22, 29,  51,  87,  80,  62 >>,
     << 18, 22, 37, 56,  68, 109, 103,  77 >>,
     << 24, 35, 55, 64,  81, 104, 113,  92 >>,
     << 49, 64, 78, 87, 103, 121, 120, 101 >>,
     << 72, 92, 95, 98, 112, 100, 103,  99 >> >>

Q_50 == [c \in Cells |-> Q_50Rows[c[1] + 1][c[2] + 1]]

\* np.int8(np.round(G_int[i_v, i_u] / Q[i_v, i_u]))
QuantizeValue(g, q) == ToInt8(RoundHalfEven(g, q * One))

perform_quantization_on_block(G_int, Q) ==
  [c \in Cells |-> QuantizeValue(G_int[c], Q[c])]

\* variant: the range is shifted by 127
RangeShiftBy127(x) == ToInt8(x - 127)

\* np.int8(data_Y[i_y, i_x] - 128)
RangeShift(x) == ToInt8(x - 128)

----------------------------------------------------------------------------
(* The zig-zag order table of the notebook's documentation                 *)

AccessTableRows ==
  << <<  0,  1,  5,  6, 14, 15, 27, 28 >>,
     <<  2,  4,  7, 13, 16, 26, 29, 42 >>,
     <<  3,  8, 12, 17, 25, 30, 41, 43 >>,
     <<  9, 11, 18, 24, 31, 40, 44, 53 >>,
     << 10, 19, 23, 32, 39, 45, 52, 54 >>,
     << 20, 22, 33, 38, 46, 51, 55, 60 >>,
     << 21, 34, 37, 47, 50, 56, 59, 61 >>,
     << 35, 36, 48, 49, 57, 58, 62, 63 >> >>

AccessTable == [c \in Cells |-> AccessTableRows[c[1] + 1][c[2] + 1]]

----------------------------------------------------------------------------
(* Zig-zag generator                                                       *)

\* range(a, b) as a sequence
Range(a, b) == [k \in 1..(IF b > a THEN b - a ELSE 0) |-> a + k - 1]

\* variant: every diagonal is walked in the same direction
DiagonalEntryOneWay(len, st, lr) ==
  LET r == Range(st, len + 1 - st)
  IN  [k \in 1..Len(r) |-> <<len - r[k], r[k]>>]

\* the inner loop "for index_1 in range(start, length+1-start)": the list
\* "entry" of one diagonal (st is the value of start after its update)
DiagonalEntry(len, st, lr) ==
  LET r == Range(st, len + 1 - st)
  IN  [k \in 1..Len(r) |->
         LET index_1 == r[k]
             index_2 == len - index_1
         IN  IF lr THEN <<index_1, index_2>> ELSE <<index_2, index_1>>]

\* variant: the start index begins to move one diagonal late
NextStartLate(len, st) == IF len > 8 THEN st + 1 ELSE st

\* "if length >= 8: start += 1"
NextStart(len, st) == IF len >= 8 THEN st + 1 ELSE st

\* one iteration of "for length in range(15)"
DiagonalStep ==
  /\ pc = "zigzag"
  /\ length < 15
  /\ start' = NextStart(length, start)
  /\ zig_zag_index' = Append(zig_zag_index, DiagonalEntry(length, start', left_right))
  /\ left_right' = ~left_right
  /\ length' = length + 1
  /\ pc' = IF length' = 15 THEN "flatten" ELSE "zigzag"
  /\ UNCHANGED <<imVars, caller, zig_zag_flat, access_pattern, i, encVars, retVars, chVars>>

RECURSIVE FlattenList(_)
\* [x for part in parts for x in part]
FlattenList(parts) ==
  IF parts = <<>> THEN <<>> ELSE Head(parts) \o FlattenList(Tail(parts))

\* zig_zag_flat = [index_pair for diagonal in zig_zag_index for index_pair in diagonal]
FlattenStep ==
  /\ pc = "flatten"
  /\ zig_zag_flat' = FlattenList(zig_zag_index)
  /\ i' = 0
  /\ pc' = "validate"
  /\ UNCHANGED <<imVars, caller, zig_zag_index, left_right, start, length, access_pattern, encVars, retVars, chVars>>

\* one iteration of "for i in range(64): access_pattern[zig_zag_flat[i]] = i"
ValidateStep ==
  /\ pc = "validate"
  /\ i < 64
  /\ i < Len(zig_zag_flat)
  /\ zig_zag_flat[i + 1] \in Cells
  /\ access_pattern' = [access_pattern EXCEPT ![zig_zag_flat[i + 1]] = ToUint8(i)]
  /\ i' = i + 1
  /\ pc' = IF i' = 64 THEN "idle" ELSE "validate"
  /\ UNCHANGED <<imVars, caller, zig_zag_index, left_right, start, length, zig_zag_flat, encVars, retVars, chVars>>

----------------------------------------------------------------------------
(* Input blocks for a direct call of apply_Huffman_encoding                *)
(*                                                                         *)
(* A block is described by its DC value and by the list of its nonzero AC  *)
(* coefficients in zig-zag order, each with the number of zero AC          *)
(* coefficients in front of it (since the previous nonzero one).           *)

DCs  == {0, -77}
Gaps == {0, 14, 15, 16, 30, 31}
Amps == {5, -1}

\* blocks with one nonzero AC coefficient cover every int8 amplitude
FullAmpGaps == {0, 14}
Int8NonZero == (-128..127) \ {0}

Coef == [gap : Gaps, amp : Amps]

RECURSIVE CoefPos(_, _)
\* zig-zag position (1..63) of the k-th nonzero coefficient
CoefPos(cs, k) == IF k = 0 THEN 0 ELSE CoefPos(cs, k - 1) + cs[k].gap + 1

CoefSeqs ==
  { cs \in UNION { [1..n -> Coef] : n \in 0..MaxCoef } : CoefPos(cs, Len(cs)) <= 63 }
  \cup { << [gap |-> g, amp |-> a] >> : g \in FullAmpGaps, a \in Int8NonZero }

\* the 63 AC values in zig-zag order
ACSeq(cs) ==
  [p \in 1..63 |->
     IF \E k \in 1..Len(cs) : CoefPos(cs, k) = p
       THEN cs[CHOOSE k \in 1..Len(cs) : CoefPos(cs, k) = p].amp
       ELSE 0]

\* the 8x8 block with the given DC value and zig-zag AC sequence
BlockOf(dc, ac) ==
  [c \in Cells |-> IF AccessTable[c] = 0 THEN dc ELSE ac[AccessTable[c]]]

----------------------------------------------------------------------------
(* apply_Huffman_encoding                                                  *)

\* "runlength += 1; if runlength == 15: overflow_counter += 1; runlength = 0"
\* returns <<runlength, overflow_counter>>
CountZero(rl, oc) ==
  IF rl + 1 = 15 THEN <<0, oc + 1>> ELSE <<rl + 1, oc>>

\* variant: every shifted-out bit is counted (the bit length)
AddEveryBit(sz, num) == sz + 1

\* "size += number & 1" (two's complement: the lowest bit)
AddLowBit(sz, num) == sz + (num % 2)

\* "number >>= 1" (arithmetic shift: floor division by 2)
ShiftRight(num) == num \div 2

\* variant: the magnitude is stored
AmplitudeMagnitude(a) == AbsInt8(a)

\* "np.int8(amplitude)": symbol 2 of a coefficient
AmplitudeByte(a) == ToInt8(a)

\* "np.int8(runlength)<<4": symbol 1 of an overflow pair
OverflowSymbol(rl) == ToInt8(rl) * 16

\* variant: the run is shifted by 3 bits only
Symbol1Shift3(rl, sz) == ToInt8(rl) * 8 + ToInt8(sz)

\* "(np.int8(runlength)<<4) + np.int8(size)": symbol 1 of a coefficient
Symbol1(rl, sz) == ToInt8(rl) * 16 + ToInt8(sz)

\* "for i in range(overflow_counter): output.append(...); output.append(np.int8(0))"
OverflowPairs(oc, rl) ==
  [k \in 1..(2 * oc) |-> IF k % 2 = 1 THEN OverflowSymbol(rl) ELSE 0]

\* variant: the end marker is not written
EndOfBlockOmitted(out) == out

\* "output.append(np.int8(0))" after the loop
EndOfBlock(out) == Append(out, 0)

\* "np.array(output, dtype=np.int8)"
ToInt8Array(out) == [k \in 1..Len(out) |-> ToInt8(out[k])]

\* entry into the function: the locals before the loop
HuffEnter(B, who) ==
  /\ B_int' = B
  /\ caller' = who
  /\ output' = <<>>
  /\ runlength' = 0
  /\ overflow_counter' = 0
  /\ index_pair_id' = 1
  /\ amplitude' = 0
  /\ size' = 0
  /\ number' = 0
  /\ pc' = "scan"

\* a direct call on a quantized block: apply_Huffman_encoding(B_int, ...)
Call ==
  /\ pc = "idle"
  /\ \E dc \in DCs, cs \in CoefSeqs : HuffEnter(BlockOf(dc, ACSeq(cs)), "cell")
  /\ UNCHANGED <<imVars, zzVars, retVars, chVars>>

\* loop iteration on a zero coefficient
ScanZero ==
  /\ pc = "scan"
  /\ index_pair_id < Len(zig_zag_flat)
  /\ B_int[zig_zag_flat[index_pair_id + 1]] = 0
  /\ amplitude' = 0
  /\ runlength' = CountZero(runlength, overflow_counter)[1]
  /\ overflow_counter' = CountZero(runlength, overflow_counter)[2]
  /\ index_pair_id' = index_pair_id + 1
  /\ UNCHANGED <<imVars, pc, caller, zzVars, B_int, output, size, number, retVars, chVars>>

\* loop iteration on a nonzero coefficient, up to the bit-counting loop
ScanNonzero ==
  /\ pc = "scan"
  /\ index_pair_id < Len(zig_zag_flat)
  /\ B_int[zig_zag_flat[index_pair_id + 1]] # 0
  /\ amplitude' = B_int[zig_zag_flat[index_pair_id + 1]]
  /\ size' = 0
  /\ number' = AbsInt8(amplitude')
  /\ pc' = "bits"
  /\ UNCHANGED <<imVars, caller, zzVars, B_int, output, runlength, overflow_counter, index_pair_id, retVars, chVars>>

\* one iteration of "while (number)"
BitStep ==
  /\ pc = "bits"
  /\ number # 0
  /\ size < MaxSize
  /\ size' = AddLowBit(size, number)
  /\ number' = ShiftRight(number)
  /\ UNCHANGED <<imVars, pc, caller, zzVars, B_int, output, runlength, overflow_counter, index_pair_id, amplitude, retVars, chVars>>

\* after the bit-counting loop: overflow pairs, then the coefficient's pair
Emit ==
  /\ pc = "bits"
  /\ number = 0
  /\ output' = output \o OverflowPairs(overflow_counter, runlength)
                      \o << Symbol1(runlength, size), AmplitudeByte(amplitude) >>
  /\ runlength' = 0
  /\ index_pair_id' = index_pair_id + 1
  /\ pc' = "scan"
  /\ UNCHANGED <<imVars, caller, zzVars, B_int, overflow_counter, amplitude, size, number, retVars, chVars>>

\* end of the loop: end-of-block byte and return
Finish ==
  /\ pc = "scan"
  /\ index_pair_id >= Len(zig_zag_flat)
  /\ output' = EndOfBlock(output)
  /\ dc_encoded' = ToInt8(B_int[<<0, 0>>])
  /\ ac_encoded' = ToInt8Array(output')
  /\ pc' = IF caller = "loop" THEN "store" ELSE "done"
  /\ UNCHANGED <<imVars, caller, zzVars, B_int, runlength, overflow_counter, index_pair_id, amplitude, size, number, chVars>>

----------------------------------------------------------------------------
(* Range modification and the per-channel block loop                       *)
(*                                                                         *)
(* The Y, Cb and Cr loops are the same code over data_Y_int, data_Cb_int   *)
(* and data_Cr_int; the plane of the model stands for any of the three.    *)

MaxYBlocks == 2
MaxXBlocks == 2

\* sample patterns of one 8x8 block of the input plane (uint8)
Patterns == {"flat128", "edge"}

PatternSample(p, y, x) ==
  CASE p = "flat128" -> 128
    [] p = "edge"    -> IF x < 4 THEN 60 ELSE 200

Grid(n_y, n_x) == (0..(n_y - 1)) \X (0..(n_x - 1))

\* the plane whose block (b_y, b_x) shows pattern layout[b_y, b_x]
PlaneOf(n_yb, n_xb, layout) ==
  [s \in Grid(8 * n_yb, 8 * n_xb) |->
     PatternSample(layout[<<s[1] \div 8, s[2] \div 8>>], s[1] % 8, s[2] % 8)]

\* sample values of the flat planes: the ends and the middle of uint8
FlatLevels == {0, 1, 127, 129, 255}

\* the plane of n_yb x n_xb blocks with all samples equal to k
FlatPlane(n_yb, n_xb, k) == [s \in Grid(8 * n_yb, 8 * n_xb) |-> k]

\* the layouts in which all blocks but at most one show the same pattern
Layouts(n_yb, n_xb) ==
  { [b \in Grid(n_yb, n_xb) |-> IF b = e THEN q ELSE p] :
      e \in Grid(n_yb, n_xb), p \in Patterns, q \in Patterns }

\* the planes of n_yb x n_xb blocks handed to the channel loop
Planes(n_yb, n_xb) ==
  { PlaneOf(n_yb, n_xb, layout) : layout \in Layouts(n_yb, n_xb) }
    \cup { FlatPlane(n_yb, n_xb, k) : k \in FlatLevels }

\* "convert Y data": the range modification of the whole plane
ConvertY ==
  /\ pc = "idle"
  /\ \E n_yb \in 1..MaxYBlocks, n_xb \in 1..MaxXBlocks :
       \E plane \in Planes(n_yb, n_xb) :
         /\ N_y' = 8 * n_yb
         /\ N_x' = 8 * n_xb
         /\ data_Y' = plane
  /\ data_Y_int' = [s \in Grid(N_y', N_x') |-> RangeShift(data_Y'[s])]
  /\ pc' = "alloc"
  /\ UNCHANGED <<imVars, caller, zzVars, encVars, retVars, i_y_b, i_x_b, G, Y_dc, Y_ac>>

N_y_blocks == N_y \div 8

\* variant: the block count of a subsampled plane, "N_x //8 //2"
N_x_blocks_c == (N_x \div 8) \div 2

N_x_blocks == N_x \div 8

\* "Y_dc = np.empty(...); Y_ac = []" and the first loop indices
LoopStart ==
  /\ pc = "alloc"
  /\ \E g \in Garbage : Y_dc' = [b \in Grid(N_y_blocks, N_x_blocks) |-> ToInt8(g)]
  /\ Y_ac' = <<>>
  /\ i_y_b' = 0
  /\ i_x_b' = 0
  /\ pc' = IF N_y_blocks > 0 /\ N_x_blocks > 0 THEN "dct" ELSE "concat"
  /\ UNCHANGED <<imVars, caller, zzVars, encVars, retVars, N_y, N_x, data_Y, data_Y_int, G>>

\* "G = perform_DCT_on_block(data_Y_int, offset_y, offset_x)"
DCTStep ==
  /\ pc = "dct"
  /\ LET offset_y == i_y_b * 8
         offset_x == i_x_b * 8
     IN  G' = perform_DCT_on_block(data_Y_int, offset_y, offset_x)
  /\ pc' = "quant"
  /\ UNCHANGED <<imVars, caller, zzVars, encVars, retVars, N_y, N_x, data_Y, data_Y_int, i_y_b, i_x_b, Y_dc, Y_ac>>

\* "B = perform_quantization_on_block(G, Q_50)" and the call of the encoder
QuantStep ==
  /\ pc = "quant"
  /\ HuffEnter(perform_quantization_on_block(G, Q_50), "loop")
  /\ UNCHANGED <<imVars, zzVars, retVars, chVars>>

\* variant: the block columns are the outer loop
NextBlockColumnMajor(iy, ix, n_yb, n_xb) ==
  IF iy + 1 < n_yb THEN <<iy + 1, ix, FALSE>>
  ELSE IF ix + 1 < n_xb THEN <<0, ix + 1, FALSE>>
  ELSE <<iy, ix, TRUE>>

\* the loop indices after block (iy, ix): <<i_y_b, i_x_b, finished>>
NextBlock(iy, ix, n_yb, n_xb) ==
  IF ix + 1 < n_xb THEN <<iy, ix + 1, FALSE>>
  ELSE IF iy + 1 < n_yb THEN <<iy + 1, 0, FALSE>>
  ELSE <<iy, ix, TRUE>>

\* "Y_dc[i_y_b, i_x_b] = dc_encoded; Y_ac.append(ac_encoded)", next iteration
StoreStep ==
  /\ pc = "store"
  /\ Y_dc' = [Y_dc EXCEPT ![<<i_y_b, i_x_b>>] = ToInt8(dc_encoded)]
  /\ Y_ac' = Append(Y_ac, ac_encoded)
  /\ LET nb == NextBlock(i_y_b, i_x_b, N_y_blocks, N_x_blocks)
     IN  /\ i_y_b' = nb[1]
         /\ i_x_b' = nb[2]
         /\ pc' = IF nb[3] THEN "concat" ELSE "dct"
  /\ UNCHANGED <<imVars, caller, zzVars, encVars, retVars, N_y, N_x, data_Y, data_Y_int, G>>

\* "Y_ac = np.array([symbol for block in Y_ac for symbol in block], dtype=np.int8)"
ConcatStep ==
  /\ pc = "concat"
  /\ Y_ac' = ToInt8Array(FlattenList(Y_ac))
  /\ pc' = "encoded"
  /\ UNCHANGED <<imVars, caller, zzVars, encVars, retVars, N_y, N_x, data_Y, data_Y_int, i_y_b, i_x_b, G, Y_dc>>

----------------------------------------------------------------------------
(* Image, colour transform and chroma subsampling                          *)
(*                                                                         *)
(* A pixel is a triple of uint8 values; channel c of the source (0, 1, 2)  *)
(* is component c + 1.  The coefficients of the colour transform have six  *)
(* decimals, so value * Micro is computed exactly in integers.             *)

\* number of rows the loaded image may exceed 16 by
MaxTrim == 1

\* largest height and width of a plane handed to the subsampling cell alone
MaxPlane == 3

\* colours of the input image: the corners of the colour cube, mid grey and
\* three colours whose transformed value is a whole number
Palette ==
  ({0, 255} \X {0, 255} \X {0, 255})
    \cup { <<128, 128, 128>>, <<0, 72, 24>>, <<133, 133, 1>>, <<0, 40, 40>> }

\* colours of the second kind of pixel of a tile: yellow, blue, white
Fill == { <<255, 255, 0>>, <<0, 0, 255>>, <<255, 255, 255>> }

\* a 2x2 tile in row-major order: the first n pixels have colour p, the rest q
Tiles ==
  { [k \in 1..4 |-> IF k <= n THEN p ELSE q] : n \in 1..4, p \in Palette, q \in Fill }

\* the image of n_y x n_x pixels that repeats the tile
ImageOf(n_y, n_x, tile) ==
  [s \in Grid(n_y, n_x) |-> tile[2 * (s[1] % 2) + (s[2] % 2) + 1]]

\* "data_RGB = np.asarray(image)", "N_y = np.shape(data_RGB)[0]", ...
LoadImage ==
  /\ pc = "load"
  /\ \E n_y \in 16..(16 + MaxTrim), n_x \in {16, 17}, tile \in Tiles :
       /\ N_y' = n_y
       /\ N_x' = n_x
       /\ data_RGB' = ImageOf(n_y, n_x, tile)
  /\ pc' = "crop"
  /\ UNCHANGED <<caller, zzVars, encVars, retVars, data_Y, data_Y_int, i_y_b, i_x_b, G, Y_dc, Y_ac,
                 data_YCbCr, data_Cb, data_Cr, i_y_s, i_x_s>>

\* "data_RGB = data_RGB[0:(N_y // 16) * 16, 0:(N_x // 16) * 16, :]" and the
\* new N_y, N_x
CropImage ==
  /\ pc = "crop"
  /\ N_y' = (N_y \div 16) * 16
  /\ N_x' = (N_x \div 16) * 16
  /\ data_RGB' = [s \in Grid(N_y', N_x') |-> data_RGB[s]]
  /\ pc' = "transform"
  /\ UNCHANGED <<caller, zzVars, encVars, retVars, data_Y, data_Y_int, i_y_b, i_x_b, G, Y_dc, Y_ac,
                 data_YCbCr, data_Cb, data_Cr, i_y_s, i_x_s>>

Micro == 1000000

\* "0. + 0.299 * R + 0.587 * G + 0.114 * B", times Micro
YMicro(p) == 0 + 299000 * p[1] + 587000 * p[2] + 114000 * p[3]

\* variant: the offset 128 is left out
CbMicroNoOffset(p) == 0 - 168736 * p[1] - 331264 * p[2] + 500000 * p[3]

\* "128. - 0.168736 * R - 0.331264 * G + 0.5 * B", times Micro
CbMicro(p) == 128 * Micro - 168736 * p[1] - 331264 * p[2] + 500000 * p[3]

\* "128. + 0.5 * R - 0.418688 * G - 0.081312 * B", times Micro
CrMicro(p) == 128 * Micro + 500000 * p[1] - 418688 * p[2] - 81312 * p[3]

\* <<channel, colour>> of the palette whose float64 sum is a whole number n
\* in exact arithmetic and n - 1.4e-14 as evaluated in float64
RoundsBelow ==
  { <<0, <<128, 128, 128>>>>, <<0, <<0, 72, 24>>>>, <<1, <<133, 133, 1>>>>,
    <<2, <<255, 255, 255>>>>, <<2, <<0, 40, 40>>>> }

\* the integer the float64 value truncates to (toward zero)
FloatTrunc(ch, p, e) ==
  LET t == IF e >= 0 THEN e \div Micro ELSE 0 - ((0 - e) \div Micro)
  IN  IF <<ch, p>> \in RoundsBelow THEN t - 1 ELSE t

\* the three values of a pixel before the cast np.uint8(...)
PreCast(p) ==
  << FloatTrunc(0, p, YMicro(p)), FloatTrunc(1, p, CbMicro(p)), FloatTrunc(2, p, CrMicro(p)) >>

\* the pixel stored in data_YCbCr
YCbCrOf(p) == [c \in 1..3 |-> ToUint8(PreCast(p)[c])]

\* "data_YCbCr = np.zeros(...)" and the conversion loop over all pixels
ColourTransform ==
  /\ pc = "transform"
  /\ data_YCbCr' = [s \in Grid(N_y, N_x) |-> YCbCrOf(data_RGB[s])]
  /\ pc' = "copy"
  /\ UNCHANGED <<caller, zzVars, encVars, retVars, chVars, data_RGB, data_Cb, data_Cr, i_y_s, i_x_s>>

\* "data_Y = np.empty(...); data_Y[:, :] = data_YCbCr[:, :, 0]"
CopyY ==
  /\ pc = "copy"
  /\ data_Y' = [s \in Grid(N_y, N_x) |-> data_YCbCr[s][1]]
  /\ pc' = "chroma"
  /\ UNCHANGED <<caller, zzVars, encVars, retVars, N_y, N_x, data_Y_int, i_y_b, i_x_b, G, Y_dc, Y_ac, imVars>>

\* "data_Cb = np.empty((N_y//2, N_x//2), ...)", the same for data_Cr, and
\* the first indices of "for i_y in range(0, N_y, 2): for i_x in range(0, N_x, 2)"
SubsampleAlloc ==
  /\ pc = "chroma"
  /\ \E g \in Garbage : data_Cb' = [s \in Grid(N_y \div 2, N_x \div 2) |-> g]
  /\ \E g \in Garbage : data_Cr' = [s \in Grid(N_y \div 2, N_x \div 2) |-> g]
  /\ i_y_s' = 0
  /\ i_x_s' = 0
  /\ pc' = IF N_y > 0 /\ N_x > 0 THEN "subsample" ELSE "subsampled"
  /\ UNCHANGED <<caller, zzVars, encVars, retVars, chVars, data_RGB, data_YCbCr>>

\* variant: the sum is accumulated in 8 bits
Sum8(a, b, c, d) == (((((a + b) % 256) + c) % 256) + d) % 256

\* np.uint16(a) + np.uint16(b) + np.uint16(c) + np.uint16(d)
Sum16(a, b, c, d) == (((((a + b) % 65536) + c) % 65536) + d) % 65536

\* the subsampled value of channel ch (1 or 2) at (y, x): np.uint8(sum // 4)
SubsampleAt(plane, ch, y, x) ==
  ToUint8(Sum16(plane[<<y, x>>][ch + 1], plane[<<y + 1, x>>][ch + 1],
                plane[<<y, x + 1>>][ch + 1], plane[<<y + 1, x + 1>>][ch + 1]) \div 4)

\* one iteration of the inner loop; an index beyond the plane raises
\* IndexError on the read, in front of any write of this iteration
SubsampleStep ==
  /\ pc = "subsample"
  /\ IF i_y_s + 1 < N_y /\ i_x_s + 1 < N_x
       THEN /\ data_Cb' = [data_Cb EXCEPT ![<<i_y_s \div 2, i_x_s \div 2>>] =
                             SubsampleAt(data_YCbCr, 1, i_y_s, i_x_s)]
            /\ data_Cr' = [data_Cr EXCEPT ![<<i_y_s \div 2, i_x_s \div 2>>] =
                             SubsampleAt(data_YCbCr, 2, i_y_s, i_x_s)]
            /\ IF i_x_s + 2 < N_x
                 THEN i_y_s' = i_y_s /\ i_x_s' = i_x_s + 2 /\ pc' = pc
                 ELSE IF i_y_s + 2 < N_y
                        THEN i_y_s' = i_y_s + 2 /\ i_x_s' = 0 /\ pc' = pc
                        ELSE i_y_s' = i_y_s /\ i_x_s' = i_x_s /\ pc' = "subsampled"
       ELSE /\ pc' = "IndexError"
            /\ UNCHANGED <<data_Cb, data_Cr, i_y_s, i_x_s>>
  /\ UNCHANGED <<caller, zzVars, encVars, retVars, chVars, data_RGB, data_YCbCr>>

----------------------------------------------------------------------------
(* Direct calls of perform_DCT_on_block and perform_quantization_on_block  *)
(* on one block (the cells in front of and behind the definition of Q_50)  *)

\* largest number of half table entries in a frequency value drawn near zero
MaxHalves == 5

\* multiples m of half a table entry: around zero and at the ends of int8
HalfCounts == ((0 - MaxHalves)..MaxHalves) \cup {-256, -255, 253, 254}

\* frequency block whose cell c0 holds m/2 table entries plus e model units
HalfBlock(c0, m, e) ==
  [c \in Cells |-> IF c = c0 THEN m * Q_50[c] * (One \div 2) + e ELSE 0]

HalfBlocks == { HalfBlock(c0, m, e) : c0 \in Cells, m \in HalfCounts, e \in {-1, 0, 1} }

\* the 8x8 plane with all samples equal to k
UniformPlane(k) == [s \in Grid(8, 8) |-> k]

\* "G_int_0_0 = perform_DCT_on_block(data_Y_int, offset_y, offset_x)", for
\* the block at offset (0, 0) of an 8x8 plane
DCTCell ==
  /\ pc = "dct_cell"
  /\ G' = perform_DCT_on_block(data_Y_int, 0, 0)
  /\ pc' = "quant_cell"
  /\ UNCHANGED <<imVars, caller, zzVars, encVars, retVars, N_y, N_x, data_Y, data_Y_int, i_y_b, i_x_b, Y_dc, Y_ac>>

\* "B_int = perform_quantization_on_block(G_int_0_0, Q_50)"
QuantCell ==
  /\ pc = "quant_cell"
  /\ B_int' = perform_quantization_on_block(G, Q_50)
  /\ pc' = "quantized"
  /\ UNCHANGED <<imVars, caller, zzVars, output, runlength, overflow_counter, index_pair_id, amplitude,
                 size, number, retVars, chVars>>

----------------------------------------------------------------------------
(* Specification: generator, validation, one direct call of the encoder    *)

\* the notebook's names before any of the modelled cells has run
Blank ==
  /\ caller = "cell"
  /\ zig_zag_index = <<>>
  /\ left_right = FALSE
  /\ start = 0
  /\ length = 0
  /\ zig_zag_flat = <<>>
  /\ \E g \in Garbage : access_pattern = [c \in Cells |-> g]
  /\ i = 0
  /\ B_int = ZeroBlock
  /\ output = <<>>
  /\ runlength = 0
  /\ overflow_counter = 0
  /\ index_pair_id = 0
  /\ amplitude = 0
  /\ size = 0
  /\ number = 0
  /\ dc_encoded = 0
  /\ ac_encoded = <<>>
  /\ N_y = 0
  /\ N_x = 0
  /\ data_Y = <<>>
  /\ data_Y_int = <<>>
  /\ i_y_b = 0
  /\ i_x_b = 0
  /\ G = ZeroBlock
  /\ Y_dc = <<>>
  /\ Y_ac = <<>>
  /\ data_RGB = <<>>
  /\ data_YCbCr = <<>>
  /\ data_Cb = <<>>
  /\ data_Cr = <<>>
  /\ i_y_s = 0
  /\ i_x_s = 0

Init ==
  /\ pc = "zigzag"
  /\ Blank

Next ==
  \/ DiagonalStep
  \/ FlattenStep
  \/ ValidateStep
  \/ Call
  \/ ScanZero
  \/ ScanNonzero
  \/ BitStep
  \/ Emit
  \/ Finish

Spec == Init /\ [][Next]_vars

\* Specification: generator, validation, range modification, channel loop
NextChannel ==
  \/ DiagonalStep
  \/ FlattenStep
  \/ ValidateStep
  \/ ConvertY
  \/ LoopStart
  \/ DCTStep
  \/ QuantStep
  \/ ScanZero
  \/ ScanNonzero
  \/ BitStep
  \/ Emit
  \/ Finish
  \/ StoreStep
  \/ ConcatStep

SpecChannel == Init /\ [][NextChannel]_vars

\* Specification: image loading, crop, colour transform, chroma subsampling
InitImage ==
  /\ pc = "load"
  /\ Blank

NextImage ==
  \/ LoadImage
  \/ CropImage
  \/ ColourTransform
  \/ CopyY
  \/ SubsampleAlloc
  \/ SubsampleStep

SpecImage == InitImage /\ [][NextImage]_vars

\* Specification: the subsampling cell alone, run on the planes of an image
\* of any height and width that has been transformed but not cropped
InitSubsample ==
  /\ pc = "chroma"
  /\ caller = "cell"
  /\ zig_zag_index = <<>>
  /\ left_right = FALSE
  /\ start = 0
  /\ length = 0
  /\ zig_zag_flat = <<>>
  /\ \E g \in Garbage : access_pattern = [c \in Cells |-> g]
  /\ i = 0
  /\ B_int = ZeroBlock
  /\ output = <<>>
  /\ runlength = 0
  /\ overflow_counter = 0
  /\ index_pair_id = 0
  /\ amplitude = 0
  /\ size = 0
  /\ number = 0
  /\ dc_encoded = 0
  /\ ac_encoded = <<>>
  /\ \E n_y \in 1..MaxPlane, n_x \in 1..MaxPlane, tile \in Tiles :
       /\ N_y = n_y
       /\ N_x = n_x
       /\ data_RGB = ImageOf(n_y, n_x, tile)
  /\ data_YCbCr = [s \in Grid(N_y, N_x) |-> YCbCrOf(data_RGB[s])]
  /\ data_Y = [s \in Grid(N_y, N_x) |-> data_YCbCr[s][1]]
  /\ data_Y_int = <<>>
  /\ i_y_b = 0
  /\ i_x_b = 0
  /\ G = ZeroBlock
  /\ Y_dc = <<>>
  /\ Y_ac = <<>>
  /\ data_Cb = <<>>
  /\ data_Cr = <<>>
  /\ i_y_s = 0
  /\ i_x_s = 0

NextSubsample ==
  \/ SubsampleAlloc
  \/ SubsampleStep

SpecSubsample == InitSubsample /\ [][NextSubsample]_vars

\* Specification: the DCT of a uniform block and its quantization, and the
\* quantization of frequency blocks at and next to half table entries
InitBlock ==
  /\ caller = "cell"
  /\ zig_zag_index = <<>>
  /\ left_right = FALSE
  /\ start = 0
  /\ length = 0
  /\ zig_zag_flat = <<>>
  /\ \E g \in Garbage : access_pattern = [c \in Cells |-> g]
  /\ i = 0
  /\ B_int = ZeroBlock
  /\ output = <<>>
  /\ runlength = 0
  /\ overflow_counter = 0
  /\ index_pair_id = 0
  /\ amplitude = 0
  /\ size = 0
  /\ number = 0
  /\ dc_encoded = 0
  /\ ac_encoded = <<>>
  /\ \/ \E k \in -128..127 :
          /\ pc = "dct_cell"
          /\ N_y = 8
          /\ N_x = 8
          /\ data_Y = UniformPlane(k + 128)
          /\ data_Y_int = UniformPlane(RangeShift(k + 128))
          /\ G = ZeroBlock
     \/ \E g \in HalfBlocks :
          /\ pc = "quant_cell"
          /\ N_y = 0
          /\ N_x = 0
          /\ data_Y = <<>>
          /\ data_Y_int = <<>>
          /\ G = g
  /\ i_y_b = 0
  /\ i_x_b = 0
  /\ Y_dc = <<>>
  /\ Y_ac = <<>>
  /\ data_RGB = <<>>
  /\ data_YCbCr = <<>>
  /\ data_Cb = <<>>
  /\ data_Cr = <<>>
  /\ i_y_s = 0
  /\ i_x_s = 0

NextBlockCells ==
  \/ DCTCell
  \/ QuantCell

SpecBlock == InitBlock /\ [][NextBlockCells]_vars

----------------------------------------------------------------------------
(* Properties of apply_Huffman_encoding, checked under Spec                *)

\* the cell of the documented zig-zag table at sequence position p
TableCells == [p \in 0..63 |-> CHOOSE c \in Cells : AccessTable[c] = p]

TableCell(p) == TableCells[p]

\* the AC coefficients of block B in documented zig-zag order (positions 1..63)
ZigZagAC(B) == [p \in 1..63 |-> B[TableCell(p)]]

\* AC sequence: n zeros, then the value a, then zeros only
ZerosThen(n, a) == [p \in 1..63 |-> IF p = n + 1 THEN a ELSE 0]

AllZeroAC == [p \in 1..63 |-> 0]

\* C1: a block whose AC sequence is 15 zeros followed by one coefficient of
\* magnitude 5 is encoded as the pair (run=15, size=3), amplitude 5, with no
\* overflow pair in front, and then the end-of-block byte.
C1_FifteenZeros ==
  (pc = "done" /\ ZigZagAC(B_int) = ZerosThen(15, 5))
    => ac_encoded = << ToInt8(15 * 16 + 3), 5, 0 >>

\* C2: a block whose AC sequence is 16 zeros followed by one coefficient of
\* magnitude 5 is encoded as one overflow pair (run=15, size=0) with
\* amplitude 0, the pair (run=0, size=3) with amplitude 5, and the
\* end-of-block byte.
C2_SixteenZeros ==
  (pc = "done" /\ ZigZagAC(B_int) = ZerosThen(16, 5))
    => ac_encoded = << ToInt8(15 * 16 + 0), 0, 3, 5, 0 >>

\* the symbol/amplitude pairs of a returned AC stream: pair j is at 2j-1, 2j
PairCount(ac) == (Len(ac) - 1) \div 2

\* C3: every overflow pair in the output (a pair whose amplitude byte is 0;
\* a coefficient's amplitude byte is never 0) has symbol-1 byte 0xF0,
\* that is run=15 and size=0.
C3_OverflowSymbol ==
  pc = "done" =>
    \A j \in 1..PairCount(ac_encoded) :
      ac_encoded[2 * j] = 0 => ToUint8(ac_encoded[2 * j - 1]) = 240

\* C4: the AC output ends with exactly one end-of-block byte 0, appended
\* after all 63 AC positions were scanned: the stream has odd length, its
\* last byte is 0 and the byte in front of it, if any, is a nonzero
\* amplitude; the stream is the single byte 0 exactly when all 63 AC
\* coefficients are zero, and then the zero-run counter overflowed 4 times.
C4_EndOfBlock ==
  pc = "done" =>
    LET n == Len(ac_encoded)
    IN  /\ index_pair_id = 64
        /\ n >= 1
        /\ n % 2 = 1
        /\ ac_encoded[n] = 0
        /\ n > 1 => ac_encoded[n - 1] # 0
        /\ (n = 1) <=> (ZigZagAC(B_int) = AllZeroAC)
        /\ ZigZagAC(B_int) = AllZeroAC => (ac_encoded = <<0>> /\ overflow_counter = 4)

C4_Witness ==
  /\ pc = "done"
  /\ ZigZagAC(B_int) = AllZeroAC
  /\ overflow_counter = 4
  /\ ac_encoded = <<0>>

----------------------------------------------------------------------------
(* Properties of the zig-zag sequence, checked under Spec                  *)

Generated == pc \notin {"zigzag", "flatten"}
Validated == pc \notin {"zigzag", "flatten", "validate"}

\* diagonal d (0..14) holds cells of row+col = d only, and is walked with
\* the row decreasing when d is even and increasing when d is odd
DiagonalOK(d) ==
  LET e == zig_zag_index[d + 1]
  IN  /\ \A k \in 1..Len(e) : e[k] \in Cells /\ e[k][1] + e[k][2] = d
      /\ \A k \in 1..(Len(e) - 1) :
           e[k + 1][1] = (IF d % 2 = 0 THEN e[k][1] - 1 ELSE e[k][1] + 1)

\* C6: zig_zag_flat visits the grid in the order of the documented table:
\* from (0,0) to (7,7), 15 anti-diagonals in increasing row+col, direction
\* alternating on every diagonal; access_pattern equals the table.
C6_ZigZagOrder ==
  /\ Generated =>
       /\ Len(zig_zag_flat) = 64
       /\ zig_zag_flat[1] = <<0, 0>>
       /\ zig_zag_flat[64] = <<7, 7>>
       /\ Len(zig_zag_index) = 15
       /\ \A d \in 0..14 : DiagonalOK(d)
       /\ \A p \in 0..63 :
            zig_zag_flat[p + 1] \in Cells /\ AccessTable[zig_zag_flat[p + 1]] = p
  /\ Validated => access_pattern = AccessTable

C6_Witness ==
  /\ pc = "idle"
  /\ access_pattern = AccessTable
  /\ access_pattern[<<0, 7>>] = 28
  /\ access_pattern[<<7, 0>>] = 35
  /\ zig_zag_flat[64] = <<7, 7>>

\* flattening a block through zig_zag_flat (positions 0..63)
ZigZagFlatten(B) == [p \in 1..64 |-> B[zig_zag_flat[p]]]

\* writing a 64-sequence back through the inverse permutation
ZigZagUnflatten(sq) == [c \in Cells |-> sq[access_pattern[c] + 1]]

\* C7: zig_zag_flat has 64 entries and holds every cell of the grid (so
\* each exactly once), and flattening the block at hand through it and
\* writing the values back through the inverse permutation gives the block.
C7_ZigZagBijection ==
  /\ Generated =>
       /\ Len(zig_zag_flat) = 64
       /\ { zig_zag_flat[p] : p \in 1..64 } = Cells
  /\ Validated => ZigZagUnflatten(ZigZagFlatten(B_int)) = B_int

C7_Witness ==
  /\ pc = "done"
  /\ Cardinality({ c \in Cells : B_int[c] # 0 }) = 3
  /\ ZigZagFlatten(B_int)[1] = -77
  /\ ZigZagFlatten(B_int)[16] = 5
  /\ ZigZagUnflatten(ZigZagFlatten(B_int)) = B_int

----------------------------------------------------------------------------
(* Properties of the symbol bytes, checked under Spec                      *)

RECURSIVE PopCount(_)
\* number of set bits in the binary representation of n >= 0
PopCount(n) == IF n = 0 THEN 0 ELSE (n % 2) + PopCount(n \div 2)

RECURSIVE BitLength(_)
BitLength(n) == IF n = 0 THEN 0 ELSE 1 + BitLength(n \div 2)

Magnitude(a) == IF a < 0 THEN 0 - a ELSE a

\* a coefficient's pair has just been appended to output
JustEmitted == pc = "scan" /\ amplitude # 0

\* C8: the size field packed into a nonzero coefficient's symbol-1 byte (its
\* low nibble) is the number of set bits of the magnitude of the amplitude.
C8_SizeIsPopCount ==
  JustEmitted =>
    /\ output[Len(output)] = amplitude
    /\ ToUint8(output[Len(output) - 1]) % 16 = PopCount(Magnitude(amplitude))

C8_Witness ==
  /\ JustEmitted
  /\ amplitude = 5
  /\ ToUint8(output[Len(output) - 1]) % 16 = 2
  /\ BitLength(Magnitude(amplitude)) = 3

\* C9 (state part): while the loop runs the output is a whole number of
\* symbol/amplitude pairs; the returned stream is those pairs and one final
\* byte, and the low nibble of every symbol-1 byte is at most 8.
C9_Pairs ==
  /\ pc \in {"scan", "bits"} => Len(output) % 2 = 0
  /\ pc = "done" =>
       /\ Len(ac_encoded) % 2 = 1
       /\ ac_encoded = ToInt8Array(output)
       /\ \A j \in 1..PairCount(ac_encoded) :
            ToUint8(ac_encoded[2 * j - 1]) % 16 \in 0..8

\* C9 (step part): the symbol-1 bytes appended for a coefficient, read as
\* unsigned bytes, carry the run-length in the high nibble and the size
\* (0 for an overflow pair) in the low nibble, each followed by one
\* amplitude byte.
C9_EmitStep ==
  (pc = "bits" /\ pc' = "scan") =>
    LET n == Len(output)
        m == overflow_counter
    IN  /\ runlength \in 0..15
        /\ size \in 0..8
        /\ Len(output') = n + 2 * m + 2
        /\ \A k \in 1..m :
             /\ ToUint8(output'[n + 2 * k - 1]) = runlength * 16
             /\ output'[n + 2 * k] = 0
        /\ ToUint8(output'[n + 2 * m + 1]) = runlength * 16 + size
        /\ ToUint8(output'[n + 2 * m + 1]) \div 16 = runlength
        /\ ToUint8(output'[n + 2 * m + 1]) % 16 = size
        /\ output'[n + 2 * m + 2] = amplitude

\* C9: in every AC stream each symbol-1 byte is run * 16 + size with the run
\* in [0,15] and the size in [0,8], and every symbol-1 byte but the final
\* end-of-block byte is followed by exactly one amplitude byte.
C9_SymbolBytes == []C9_Pairs /\ [][C9_EmitStep]_vars

C9_Witness ==
  /\ pc = "done"
  /\ ac_encoded = << ToInt8(14 * 16 + 7), 127, 0 >>

----------------------------------------------------------------------------
(* Properties of the block pipeline, checked under SpecChannel             *)

\* the loop body is at work on block (i_y_b, i_x_b)
InBlock == pc \in {"dct", "quant", "scan", "bits", "store"}

\* the samples of block (b_y, b_x) of a plane
BlockSamples(plane, b_y, b_x) ==
  [c \in Cells |-> plane[<<8 * b_y + c[1], 8 * b_x + c[2]>>]]

CurrentIs128 == BlockSamples(data_Y, i_y_b, i_x_b) = [c \in Cells |-> 128]

\* C5: a block whose unsigned samples are all 128 is range-shifted to all
\* zeros, its DCT is the all-zero frequency block, its quantization with
\* Q_50 the all-zero block, and the encoder returns DC = 0 and the AC
\* stream made of the single end-of-block byte 0.
C5_EndToEnd ==
  (InBlock /\ CurrentIs128) =>
    /\ BlockSamples(data_Y_int, i_y_b, i_x_b) = ZeroBlock
    /\ pc \in {"quant", "scan", "bits", "store"} => G = ZeroBlock
    /\ pc \in {"scan", "bits", "store"} => B_int = ZeroBlock
    /\ pc # "bits"
    /\ pc = "store" => (dc_encoded = 0 /\ ac_encoded = <<0>>)

C5_Witness ==
  /\ pc = "store"
  /\ CurrentIs128
  /\ G = ZeroBlock
  /\ B_int = ZeroBlock
  /\ dc_encoded = 0
  /\ ac_encoded = <<0>>

\* raster index of block (b_y, b_x)
RasterIndex(b_y, b_x) == b_y * N_x_blocks + b_x

\* the DC value of block (b_y, b_x): its quantized (0,0) coefficient
BlockDC(b_y, b_x) ==
  QuantizeValue(FMul(DCTSum(data_Y_int, 8 * b_y, 8 * b_x, 0, 0), DCTFactor(0, 0)),
                Q_50[<<0, 0>>])

\* C10 (state part): the blocks stored so far are exactly those in front of
\* the current block in raster order, each once, and when a block is begun
\* the DC array holds their DC values at their block positions (the step
\* part keeps the array as it is while the block is encoded); at the end
\* all blocks are in.
C10_Stored ==
  /\ InBlock =>
       /\ i_y_b \in 0..(N_y_blocks - 1)
       /\ i_x_b \in 0..(N_x_blocks - 1)
       /\ Len(Y_ac) = RasterIndex(i_y_b, i_x_b)
  /\ pc = "dct" =>
       \A b \in Grid(N_y_blocks, N_x_blocks) :
         RasterIndex(b[1], b[2]) < Len(Y_ac) => Y_dc[b] = BlockDC(b[1], b[2])
  /\ pc = "concat" => Len(Y_ac) = N_y_blocks * N_x_blocks
  /\ pc = "encoded" =>
       \A b \in Grid(N_y_blocks, N_x_blocks) : Y_dc[b] = BlockDC(b[1], b[2])

\* C10 (step part): storing appends the AC stream returned for the quantized
\* block at the current block position and leaves earlier entries alone;
\* the final stream is the concatenation of the stored streams in order.
C10_Step ==
  /\ (pc = "store" /\ pc' # "store") =>
       /\ B_int = perform_quantization_on_block(
                    perform_DCT_on_block(data_Y_int, 8 * i_y_b, 8 * i_x_b), Q_50)
       /\ ac_encoded = ToInt8Array(output)
       /\ Y_ac' = Append(Y_ac, ac_encoded)
       /\ Y_dc'[<<i_y_b, i_x_b>>] = dc_encoded
       /\ dc_encoded = B_int[<<0, 0>>]
  /\ (pc = "concat" /\ pc' = "encoded") =>
       /\ Y_ac' = FlattenList(Y_ac)
       /\ Y_dc' = Y_dc
  /\ (InBlock /\ pc # "store") => (Y_ac' = Y_ac /\ Y_dc' = Y_dc)

\* C10: the channel loop encodes each block once in raster order; the AC
\* stream is the concatenation of the blocks' AC streams in that order and
\* the DC array entry [by, bx] is the DC value of block (by, bx).
C10_RasterOrder == []C10_Stored /\ [][C10_Step]_vars

\* the quantized "edge" block: DC 1, AC stream of four coefficient pairs
EdgeStream == << 4, -46, 67, 11, -126, -3, -63, 2, 0 >>

C10_Witness ==
  /\ pc = "encoded"
  /\ N_y_blocks = 2
  /\ N_x_blocks = 2
  /\ Y_dc = [b \in Grid(2, 2) |-> IF b = <<0, 1>> THEN 1 ELSE 0]
  /\ Y_ac = <<0>> \o EdgeStream \o <<0>> \o <<0>>

----------------------------------------------------------------------------
(* Properties of the colour transform and the subsampling, checked under   *)
(* SpecImage and SpecSubsample                                             *)

\* C11: for every pixel of the image, the three values of the colour
\* transform truncate, before the cast to uint8, to integers in [0,255],
\* so the cast does not wrap and data_YCbCr holds exactly these integers.
C11_ColourInRange ==
  pc = "copy" =>
    \A s \in Grid(N_y, N_x) :
      \A c \in 1..3 :
        /\ data_RGB[s] \in (0..255) \X (0..255) \X (0..255)
        /\ PreCast(data_RGB[s])[c] \in 0..255
        /\ data_YCbCr[s][c] = PreCast(data_RGB[s])[c]

\* yellow gives the smallest Cb (0.5 -> 0), blue the largest (255.5 -> 255),
\* white the largest Y
C11_Witness ==
  /\ pc = "copy"
  /\ data_RGB[<<0, 0>>] = <<255, 255, 0>>
  /\ data_YCbCr[<<0, 0>>] = <<225, 0, 148>>
  /\ data_RGB[<<1, 1>>] = <<0, 0, 255>>
  /\ data_YCbCr[<<1, 1>>] = <<29, 255, 107>>

\* the samples of channel ch in the 2x2 neighbourhood of output sample b
Neighbourhood(ch, b) ==
  << data_YCbCr[<<2 * b[1], 2 * b[2]>>][ch + 1],
     data_YCbCr[<<2 * b[1] + 1, 2 * b[2]>>][ch + 1],
     data_YCbCr[<<2 * b[1], 2 * b[2] + 1>>][ch + 1],
     data_YCbCr[<<2 * b[1] + 1, 2 * b[2] + 1>>][ch + 1] >>

AverageOK(ch, out, b) ==
  LET n == Neighbourhood(ch, b)
      total == n[1] + n[2] + n[3] + n[4]
  IN  /\ \A k \in 1..4 : n[k] \in 0..255
      /\ Sum16(n[1], n[2], n[3], n[4]) = total
      /\ out[b] = total \div 4
      /\ out[b] \in 0..255
      /\ (n[1] = n[2] /\ n[2] = n[3] /\ n[3] = n[4]) => out[b] = n[1]

\* C12: every subsampled chroma sample is floor((a+b+c+d)/4) of its 2x2
\* neighbourhood, the 16-bit sum does not overflow, the sample lies in
\* [0,255] and is k when a = b = c = d = k; the luma plane is the first
\* channel of the transformed image, unchanged.
C12_SubsampleAverage ==
  pc = "subsampled" =>
    /\ DOMAIN data_Cb = Grid(N_y \div 2, N_x \div 2)
    /\ DOMAIN data_Cr = Grid(N_y \div 2, N_x \div 2)
    /\ \A b \in Grid(N_y \div 2, N_x \div 2) :
         AverageOK(1, data_Cb, b) /\ AverageOK(2, data_Cr, b)
    /\ \A s \in Grid(N_y, N_x) : data_Y[s] = data_YCbCr[s][1]

\* three blue pixels and a yellow one: Cb 255, 255, 255, 0 and Cr 107, 107,
\* 107, 148; the sums 765 and 469 need more than 8 bits and leave a remainder
C12_Witness ==
  /\ pc = "subsampled"
  /\ N_y = 16
  /\ Neighbourhood(1, <<7, 7>>) = <<255, 255, 255, 0>>
  /\ data_Cb[<<7, 7>>] = 191
  /\ data_Cr[<<7, 7>>] = 117
  /\ data_Y[<<15, 15>>] = 225

\* the subsampling loop has ended, with or without an exception
SubsamplerEnded == pc \in {"subsampled", "IndexError", "DimensionError"}

----------------------------------------------------------------------------
(* Properties of the quantization and the DCT, checked under SpecBlock     *)

\* round(n / d) for d > 0, exact halves going away from zero
RoundHalfAway(n, d) ==
  IF n >= 0 THEN (2 * n + d) \div (2 * d) ELSE 0 - ((d - 2 * n) \div (2 * d))

\* the quotient g / q lies within [-128, 127]
QuotientInInt8(g, q) == -128 * q * One <= g /\ g <= 127 * q * One

\* C13: for every frequency value whose quotient by the table entry lies in
\* [-128, 127], the quantized value is the integer nearest to the quotient,
\* and of two equally near integers the one farther from zero.
C13_RoundHalfAway ==
  pc = "quantized" =>
    \A c \in Cells :
      QuotientInInt8(G[c], Q_50[c]) => B_int[c] = RoundHalfAway(G[c], Q_50[c] * One)

\* the sample value of the uniform block handed to the DCT cell
UniformK == data_Y_int[<<0, 0>>]

\* the DCT cell has run on a uniform block
UniformTransformed ==
  /\ pc = "quant_cell"
  /\ data_Y_int # <<>>
  /\ \A s \in Grid(8, 8) : data_Y_int[s] = UniformK

\* x equals y up to 1e-3 of the magnitude of y
Near(x, y) == Magnitude(x - y) <= Magnitude(y) \div 1000

\* C14, as claimed: the DCT of a uniform block of value k has all AC terms
\* zero and the DC term k * 8 * alpha(0) * alpha(0); the all-zero block
\* gives the all-zero frequency block.
C14_UniformDC ==
  UniformTransformed =>
    /\ \A c \in Cells \ {<<0, 0>>} : G[c] = 0
    /\ Near(G[<<0, 0>>], UniformK * 8 * FMul(Alpha(0), Alpha(0)))
    /\ UniformK = 0 => G = ZeroBlock

\* C14, amended: the DCT of a uniform block of value k in [-128, 127] has
\* all AC terms zero and the DC term 8 * k, which is
\* k * 64 * (1/4) * alpha(0) * alpha(0); the all-zero block gives the
\* all-zero frequency block.
C14_UniformDCAmended ==
  UniformTransformed =>
    /\ UniformK \in -128..127
    /\ \A c \in Cells \ {<<0, 0>>} : G[c] = 0
    /\ Near(G[<<0, 0>>], UniformK * 8 * One)
    /\ Near(G[<<0, 0>>], UniformK * 64 * DCTFactor(0, 0))
    /\ UniformK = 0 => G = ZeroBlock

C14_Witness ==
  /\ UniformTransformed
  /\ UniformK = -128
  /\ G[<<0, 0>>] < -1023 * One
  /\ G[<<0, 0>>] > -1024 * One
  /\ G[<<7, 7>>] = 0

----------------------------------------------------------------------------
(* Size of the encoded flat image, checked under SpecChannel               *)

\* all samples of the plane are equal
FlatImage == \A s \in Grid(N_y, N_x) : data_Y[s] = data_Y[<<0, 0>>]

\* number of blocks of the plane
BlockCount == N_y_blocks * N_x_blocks

\* bytes of the DC array (one int8 per entry) and of the flat AC array
DCBytes == Cardinality(DOMAIN Y_dc)
ACBytes == Len(Y_ac)

\* C15, as claimed: the encoded channel of a flat image of N blocks has
\* fewer than N bytes in total (DC bytes plus AC stream bytes).
C15_FewerBytesThanBlocks ==
  (pc = "encoded" /\ FlatImage) => DCBytes + ACBytes < BlockCount

\* C15, amended: the encoded channel of a flat image of N blocks has exactly
\* 2 * N bytes, N DC bytes and N end-of-block bytes (the AC stream holds
\* nothing else), which is fewer than the 64 * N samples of the plane.
C15_TwoBytesPerBlock ==
  (pc = "encoded" /\ FlatImage) =>
    /\ DCBytes = BlockCount
    /\ ACBytes = BlockCount
    /\ \A k \in 1..Len(Y_ac) : Y_ac[k] = 0
    /\ DCBytes + ACBytes = 2 * BlockCount
    /\ DCBytes + ACBytes < N_y * N_x
    /\ N_y * N_x = 64 * BlockCount

C15_Witness ==
  /\ pc = "encoded"
  /\ FlatImage
  /\ data_Y[<<0, 0>>] = 255
  /\ BlockCount = 4
  /\ Y_dc = [b \in Grid(2, 2) |-> 63]
  /\ Y_ac = <<0, 0, 0, 0>>

----------------------------------------------------------------------------
(* Termination, overflow pairs and stream content of                       *)
(* apply_Huffman_encoding, checked under Spec                              *)

\* C17: the bit-counting loop ends for every amplitude: the value it shifts
\* is the magnitude of an int8, a number from 0 to 128 that each shift
\* halves, so that at most 8 shifts are left at any time.
C17_BitLoopEnds ==
  pc = "bits" =>
    /\ number >= 0
    /\ number <= 128
    /\ BitLength(number) <= 8
    /\ size <= 8

\* the AC coefficient at zig-zag position p (1..63)
ACAt(p) == B_int[zig_zag_flat[p + 1]]

\* the position of the last nonzero AC coefficient in front of position p,
\* 0 when there is none
PrevNonzero(p) ==
  LET S == { q \in 1..(p - 1) : ACAt(q) # 0 }
  IN  IF S = {} THEN 0 ELSE CHOOSE q \in S : \A r \in S : r <= q

\* zero AC coefficients between the previous nonzero one and position p
ZeroRun(p) == p - PrevNonzero(p) - 1

\* zero AC coefficients in front of position p
ZerosBefore(p) == Cardinality({ q \in 1..(p - 1) : ACAt(q) = 0 })

\* zeros accounted for by a whole number of pairs: 15 for an overflow pair
\* (amplitude byte 0), the run field for a coefficient's pair
Accounted(out) ==
  SumTo([j \in 0..(Len(out) \div 2) |->
           IF j = 0 THEN 0
           ELSE IF out[2 * j] = 0 THEN 15
           ELSE ToUint8(out[2 * j - 1]) \div 16],
        Len(out) \div 2)

\* the step that appends the pairs of the coefficient at index_pair_id
C18_EmitStep ==
  (pc = "bits" /\ pc' = "scan") =>
    LET p == index_pair_id
        pairs == ((Len(output') - Len(output)) \div 2) - 1
        run == ToUint8(output'[Len(output') - 1]) \div 16
    IN  /\ pairs = ZeroRun(p) \div 15
        /\ 15 * pairs + run = ZeroRun(p)
        /\ Accounted(output') = ZerosBefore(p)

\* C18: the overflow pairs written in front of a coefficient's symbol are as
\* many as the zero-run counter reached 15 since the previous nonzero
\* coefficient, none of them written for an earlier coefficient already, so
\* that 15 per overflow pair plus the run fields account for exactly the
\* zero AC coefficients in front of the coefficient.
C18_OverflowPairsOnce == [][C18_EmitStep]_vars

\* C19: in a returned AC stream, read as pairs from the start, no symbol-1
\* byte is 0; the only such byte is the final end-of-block byte.
C19_ZeroOnlyAtEnd ==
  pc = "done" =>
    /\ ac_encoded[Len(ac_encoded)] = 0
    /\ \A j \in 1..PairCount(ac_encoded) : ac_encoded[2 * j - 1] # 0

\* the nonzero AC coefficients at positions 1..p, in zig-zag order
NonzeroAC(p) == SelectSeq([q \in 1..p |-> ACAt(q)], LAMBDA a : a # 0)

\* the amplitude bytes of the pairs of out that are not overflow pairs
Amplitudes(out) ==
  SelectSeq([j \in 1..(Len(out) \div 2) |-> out[2 * j]], LAMBDA a : a # 0)

\* C20 (state part): the amplitude bytes written so far are the nonzero AC
\* coefficients scanned so far, in order; the returned stream holds all of
\* them and the returned DC value is B[0,0].
C20_Amplitudes ==
  /\ pc \in {"scan", "bits"} =>
       Amplitudes(output) = NonzeroAC(index_pair_id - 1)
  /\ pc = "done" =>
       /\ Amplitudes(ac_encoded) = NonzeroAC(63)
       /\ dc_encoded = B_int[<<0, 0>>]

\* C20 (step part): a zero coefficient adds nothing to the output, a nonzero
\* one adds its own value as the last byte, and the return adds the
\* end-of-block byte only; the DC cell is not read by the scan.
C20_Step ==
  /\ (pc = "scan" /\ pc' = "scan") => output' = output
  /\ (pc = "bits" /\ pc' = "scan") =>
       /\ index_pair_id \in 1..63
       /\ output'[Len(output')] = ACAt(index_pair_id)
  /\ (pc = "scan" /\ pc' = "done") => ac_encoded' = ToInt8Array(Append(output, 0))

\* C20: the amplitude bytes of the non-overflow pairs of the AC stream are
\* the nonzero AC coefficients of positions 1..63 in zig-zag order, each
\* once and with its sign; the DC value is returned as it is and is not in
\* the stream; zeros behind the last nonzero coefficient add only the
\* end-of-block byte.
C20_StreamContent == []C20_Amplitudes /\ [][C20_Step]_vars

\* 14 zeros, -1, then 5: pairs (run 14, size 1) -1 and (run 0, size 2) 5
C20_Witness ==
  /\ pc = "done"
  /\ dc_encoded = -77
  /\ NonzeroAC(63) = <<-1, 5>>
  /\ ac_encoded = << ToInt8(14 * 16 + 1), -1, 2, 5, 0 >>

====
